---- MODULE Spec2Model ----
(***************************************************************************)
(* Session authentication and email verification of rust-graphql-server:   *)
(* the Executor's handlers (src/executor.rs) over the Redis store and the  *)
(* users table, with the token codec of src/auth.rs.  Every handler is     *)
(* split at its await points (one action per store or database call), so   *)
(* that concurrent requests interleave exactly where the code can.         *)
(***************************************************************************)
EXTENDS Integers, Sequences, FiniteSets, TLC

\* ------------------------------------------------------------------ bounds
NumProcs == 2          \* requests in flight at once
MaxUsers == 2          \* users ever created (fresh Uuid per user)
MaxSessions == 2       \* sessions ever created (fresh Uuid per session)
MaxTokenIds == 3       \* session tokens ever minted (fresh Uuid per token)
SessionTTL == 2        \* session_token_expiration_seconds, in ticks
VerifyTTL == 2         \* email_verification_code_expiration_seconds, in ticks

Procs == 1..NumProcs
UserIds == 1..MaxUsers
SessionIds == 1..MaxSessions
TokenIds == 1..MaxTokenIds

\* Option<T>: None is the empty sequence, Some(x) the one-element sequence.
None == <<>>
Some(x) == <<x>>
IsSome(o) == Len(o) = 1
Unwrap(o) == o[1]

\* ------------------------------------------------------------- token codec
\* The configured secret, and a different key (a token signed elsewhere).
Secret == "s3cr3t"
OtherSecret == "0ther"

SessionTokenData(session_id, session_token_id, user_id) ==
    [session_id |-> session_id, session_token_id |-> session_token_id, user_id |-> user_id]

\* HMAC-SHA256 over header and claims, idealised as an injective function of
\* its three inputs.
Hmac(hdr, claims, key) == <<hdr, claims, key>>

\* A token string "header.claims.signature".  hdr "canon" is the header the
\* jwt crate writes, "alt" another header that parses (extra field, other
\* spacing), "junk" a string that does not parse.
TokenString(hdr, claims, sig) == [hdr |-> hdr, claims |-> claims, sig |-> sig]

Junk == TokenString("junk", SessionTokenData(0, 0, 0), Hmac("junk", SessionTokenData(0, 0, 0), "none"))

EncodeSigningClaimsOnly(data, secret) == TokenString("canon", data, Hmac("", data, secret))

Encode(data, secret) == TokenString("canon", data, Hmac("canon", data, secret))

DecodeUnchecked(token, secret) ==
    IF token.hdr \in {"canon", "alt"} THEN Some(token.claims) ELSE None

Decode(token, secret) ==
    IF token.hdr \in {"canon", "alt"} /\ token.sig = Hmac(token.hdr, token.claims, secret)
    THEN Some(token.claims)
    ELSE None

VerifyReserialising(token, secret) ==
    IF IsSome(Decode(token, secret))
    THEN Some(TokenString("alt", Unwrap(Decode(token, secret)),
                          Hmac("alt", Unwrap(Decode(token, secret)), secret)))
    ELSE None

Verify(token, secret) ==
    IF IsSome(Decode(token, secret))
    THEN Some(Encode(Unwrap(Decode(token, secret)), secret))
    ELSE None

\* What a client can present for a token t it was issued: t itself, the same
\* claims re-serialised under the secret, the same claims signed with another
\* key, and a string that is no token.
Reserialised(t) == TokenString("alt", t.claims, Hmac("alt", t.claims, Secret))
SignedElsewhere(t) == TokenString("canon", t.claims, Hmac("canon", t.claims, OtherSecret))
Presentable(ts) == ts \cup {Reserialised(t) : t \in ts} \cup {SignedElsewhere(t) : t \in ts} \cup {Junk}

\* ------------------------------------------------------------------- state
VARIABLES
    redis,      \* the store: key -> None or Some([val, ttl])
    users,      \* the users table: set of rows
    nextSid, nextTid, nextUid,   \* Uuid::new_v4(): the next unused id of each kind
    pc, op, arg, loc, res,       \* per request: position, handler, input, locals, result
    issued,     \* history: every session token returned to a client
    latest,     \* history: session_id -> the token most recently issued for it
    loggedOut,  \* history: session ids for which a logout returned true
    expired,    \* history: session ids whose record the TTL removed
    age,        \* history: session_id -> ticks since its record was last written
    consumed,   \* history: the <<user id, code>> pairs a check accepted
    mismatched, \* history: user ids whose pending code a check failed to match
    outbox      \* verification emails delivered: set of <<email, code>>

store == <<redis>>
db == <<users, nextUid>>
ids == <<nextSid, nextTid>>
hist == <<issued, latest, loggedOut, expired, age, consumed, mismatched>>
vars == <<redis, users, nextSid, nextTid, nextUid, pc, op, arg, loc, res,
          issued, latest, loggedOut, expired, age, consumed, mismatched, outbox>>

SessionKey(session_id) == <<"session", session_id>>
Emails == {"a@x"}
Usernames == {"alice", "bob"}
Passwords == {"pw1", "pw2"}
Codes == {"ABCDEF", "GHIJKL"}
VerifyKey(user_id, email) == <<"verify", user_id, email>>
Keys == {SessionKey(s) : s \in SessionIds} \cup {VerifyKey(u, e) : u \in UserIds, e \in Emails}

Record(val, ttl) == [val |-> val, ttl |-> ttl]

\* Redis commands.
Get(key) == IF IsSome(redis[key]) THEN Some(Unwrap(redis[key]).val) ELSE None
SetEx(key, val, ttl) == redis' = [redis EXCEPT ![key] = Some(Record(val, ttl))]
DelNothing(key) == redis' = redis

DelEverything(key) == redis' = [k \in Keys |-> None]

Del(key) == redis' = [redis EXCEPT ![key] = None]

\* Results.
NoRes == [tag |-> "-", tok |-> Junk]
RNone == [tag |-> "None", tok |-> Junk]
RErr == [tag |-> "Err", tok |-> Junk]
RTrue == [tag |-> "True", tok |-> Junk]
RFalse == [tag |-> "False", tok |-> Junk]
RSome(t) == [tag |-> "Some", tok |-> t]

NoArg == [token |-> Junk, username |-> "", password |-> "", email |-> "", user_id |-> 0, code |-> ""]
NoLoc == [session_id |-> 0, user_id |-> 0, email |-> "", code |-> "",
          seen |-> None, present |-> FALSE, was_logged_out |-> FALSE, was_expired |-> FALSE,
          was_latest |-> FALSE, was_consumed |-> FALSE]

Init ==
    /\ redis = [k \in Keys |-> None]
    /\ users = {}
    /\ nextSid = 1 /\ nextTid = 1 /\ nextUid = 1
    /\ pc = [p \in Procs |-> "idle"]
    /\ op = [p \in Procs |-> "-"]
    /\ arg = [p \in Procs |-> NoArg]
    /\ loc = [p \in Procs |-> NoLoc]
    /\ res = [p \in Procs |-> NoRes]
    /\ issued = {}
    /\ latest = [s \in SessionIds |-> None]
    /\ loggedOut = {} /\ expired = {}
    /\ age = [s \in SessionIds |-> 0]
    /\ consumed = {} /\ mismatched = {}
    /\ outbox = {}

\* A request finishes with result r.
Finish(p, r) ==
    /\ pc' = [pc EXCEPT ![p] = "done"]
    /\ res' = [res EXCEPT ![p] = r]

Goto(p, label) ==
    /\ pc' = [pc EXCEPT ![p] = label]
    /\ UNCHANGED res

Begin(p, name, a) ==
    /\ pc[p] = "idle"
    /\ op' = [op EXCEPT ![p] = name]
    /\ arg' = [arg EXCEPT ![p] = a]

Local(p, l) == loc' = [loc EXCEPT ![p] = l]

\* ------------------------------------------------------------------ users
User(id, username, email, password_hash, email_verified) ==
    [id |-> id, username |-> username, email |-> email,
     password_hash |-> password_hash, email_verified |-> email_verified]

\* bcrypt::hash and bcrypt::verify: a hash matches exactly its own password.
BcryptHash(password) == <<"bcrypt", password>>
BcryptVerifyAnything(password, password_hash) == TRUE

BcryptVerify(password, password_hash) == password_hash = BcryptHash(password)

FindAnyUser(id) == users

FindUser(id) == {u \in users : u.id = id}
FindUserByUsername(username) == {u \in users : u.username = username}

\* ---------------------------------------------------------------- sessions
\* Executor::login up to its first await: the username lookup and the
\* password check.
Login(p) ==
    \E username \in Usernames \cup {"nobody"}, password \in Passwords :
        /\ Begin(p, "login", [NoArg EXCEPT !.username = username, !.password = password])
        /\ \/ Finish(p, RErr) /\ UNCHANGED loc
           \/ /\ FindUserByUsername(username) = {}
              /\ Finish(p, RNone) /\ UNCHANGED loc
           \/ \E u \in FindUserByUsername(username) :
                IF BcryptVerify(password, u.password_hash)
                THEN Goto(p, "create_session") /\ Local(p, [NoLoc EXCEPT !.user_id = u.id])
                ELSE Finish(p, RNone) /\ UNCHANGED loc
        /\ UNCHANGED <<store, db, ids, hist, outbox>>

\* The history of a token handed to the client.
Issued(token) ==
    /\ issued' = issued \cup {token}
    /\ latest' = [latest EXCEPT ![token.claims.session_id] = Some(token)]
    /\ age' = [age EXCEPT ![token.claims.session_id] = 0]
    /\ UNCHANGED <<loggedOut, expired, consumed, mismatched>>

\* set_ex(session_id, token, session_token_expiration_seconds).
PutSessionKeepingTTL(token) ==
    LET key == SessionKey(token.claims.session_id)
    IN SetEx(key, token, IF IsSome(redis[key]) THEN Unwrap(redis[key]).ttl ELSE SessionTTL)

PutSessionAlone(token) ==
    redis' = [k \in Keys |-> IF k = SessionKey(token.claims.session_id)
                             THEN Some(Record(token, SessionTTL)) ELSE None]

PutSession(token) == SetEx(SessionKey(token.claims.session_id), token, SessionTTL)

\* Executor::create_session: two fresh ids, encode, set_ex.
CreateSession(p) ==
    /\ pc[p] = "create_session"
    /\ \/ Finish(p, RErr) /\ UNCHANGED <<store, ids, hist>>
       \/ /\ nextSid <= MaxSessions /\ nextTid <= MaxTokenIds
          /\ LET session_token == Encode(SessionTokenData(nextSid, nextTid, loc[p].user_id), Secret)
             IN /\ PutSession(session_token)
                /\ Issued(session_token)
                /\ Finish(p, RSome(session_token))
          /\ nextSid' = nextSid + 1 /\ nextTid' = nextTid + 1
    /\ UNCHANGED <<db, op, arg, loc, outbox>>

\* Executor::find_session: the stored string, verified (decoded and re-encoded).
FindSession(session_id) ==
    IF IsSome(Get(SessionKey(session_id)))
    THEN Verify(Unwrap(Get(SessionKey(session_id))), Secret)
    ELSE None

\* The comparison of Executor::refresh: the presented string against the
\* string find_session returned.
SameClaims(current_session_token, unverified_session_token) ==
    Decode(current_session_token, Secret) = Decode(unverified_session_token, Secret)

SameSession(current_session_token, unverified_session_token) ==
    current_session_token.claims.session_id = unverified_session_token.claims.session_id

IsCurrent(current_session_token, unverified_session_token) ==
    current_session_token = unverified_session_token

\* Executor::refresh up to its write: decode, find_session, compare.
RefreshEndingStaleSession(p) ==
    \E token \in Presentable(issued) :
        /\ Begin(p, "refresh", [NoArg EXCEPT !.token = token])
        /\ IF Decode(token, Secret) = None
           THEN Finish(p, RNone) /\ UNCHANGED <<loc, store>>
           ELSE LET data == Unwrap(Decode(token, Secret))
                    sid == data.session_id
                    l == [NoLoc EXCEPT !.session_id = sid, !.user_id = data.user_id,
                                       !.seen = Get(SessionKey(sid)),
                                       !.present = IsSome(redis[SessionKey(sid)]),
                                       !.was_logged_out = sid \in loggedOut,
                                       !.was_expired = sid \in expired,
                                       !.was_latest = (latest[sid] = Some(token))]
                IN \/ Finish(p, RErr) /\ UNCHANGED <<loc, store>>
                   \/ /\ Local(p, l)
                      /\ IF IsSome(FindSession(sid)) /\ IsCurrent(Unwrap(FindSession(sid)), token)
                         THEN Goto(p, "refresh_put") /\ UNCHANGED store
                         ELSE Finish(p, RNone) /\ Del(SessionKey(sid))
        /\ UNCHANGED <<db, ids, hist, outbox>>

Refresh(p) ==
    \E token \in Presentable(issued) :
        /\ Begin(p, "refresh", [NoArg EXCEPT !.token = token])
        /\ IF Decode(token, Secret) = None
           THEN Finish(p, RNone) /\ UNCHANGED loc
           ELSE LET data == Unwrap(Decode(token, Secret))
                    sid == data.session_id
                    l == [NoLoc EXCEPT !.session_id = sid, !.user_id = data.user_id,
                                       !.seen = Get(SessionKey(sid)),
                                       !.present = IsSome(redis[SessionKey(sid)]),
                                       !.was_logged_out = sid \in loggedOut,
                                       !.was_expired = sid \in expired,
                                       !.was_latest = (latest[sid] = Some(token))]
                IN \/ Finish(p, RErr) /\ UNCHANGED loc
                   \/ /\ Local(p, l)
                      /\ IF IsSome(FindSession(sid)) /\ IsCurrent(Unwrap(FindSession(sid)), token)
                         THEN Goto(p, "refresh_put")
                         ELSE Finish(p, RNone)
        /\ UNCHANGED <<store, db, ids, hist, outbox>>

\* The token a refresh mints: same session and user, fresh token id.
RefreshedForWrongUser(session_id, user_id, fresh) ==
    Encode(SessionTokenData(session_id, fresh, session_id), Secret)

Refreshed(session_id, user_id, fresh) ==
    Encode(SessionTokenData(session_id, fresh, user_id), Secret)

\* Executor::refresh, its write: set_ex of the new token under the session key.
RefreshPut(p) ==
    /\ pc[p] = "refresh_put"
    /\ \/ Finish(p, RErr) /\ UNCHANGED <<store, ids, hist>>
       \/ /\ nextTid <= MaxTokenIds
          /\ LET refreshed_session_token == Refreshed(loc[p].session_id, loc[p].user_id, nextTid)
             IN /\ PutSession(refreshed_session_token)
                /\ Issued(refreshed_session_token)
                /\ Finish(p, RSome(refreshed_session_token))
          /\ nextTid' = nextTid + 1
          /\ UNCHANGED nextSid
    /\ UNCHANGED <<db, op, arg, loc, outbox>>

\* Executor::delete_session: whether the del removed a record.
DeletedAlways(count) == TRUE

Deleted(count) == count # 0

\* Executor::logout with Executor::delete_session: decode, del, count != 0.
Logout(p) ==
    \E token \in Presentable(issued) :
        /\ Begin(p, "logout", [NoArg EXCEPT !.token = token])
        /\ IF Decode(token, Secret) = None
           THEN Finish(p, RFalse) /\ UNCHANGED <<store, hist, loc>>
           ELSE LET sid == Unwrap(Decode(token, Secret)).session_id
                    count == IF IsSome(redis[SessionKey(sid)]) THEN 1 ELSE 0
                    l == [NoLoc EXCEPT !.session_id = sid,
                                       !.present = IsSome(redis[SessionKey(sid)]),
                                       !.was_logged_out = sid \in loggedOut,
                                       !.was_expired = sid \in expired,
                                       !.was_latest = (latest[sid] = Some(token))]
                IN \/ Finish(p, RErr) /\ UNCHANGED <<store, hist, loc>>
                   \/ /\ Del(SessionKey(sid))
                      /\ Local(p, l)
                      /\ loggedOut' = IF Deleted(count) THEN loggedOut \cup {sid} ELSE loggedOut
                      /\ Finish(p, IF Deleted(count) THEN RTrue ELSE RFalse)
                      /\ UNCHANGED <<issued, latest, expired, age, consumed, mismatched>>
        /\ UNCHANGED <<db, ids, outbox>>

\* ------------------------------------------------------------ verification
RUser == [tag |-> "User", tok |-> Junk]
RTaken == [tag |-> "username-taken", tok |-> Junk]

\* Mutation::create_user up to Executor::create_user: the username lookup.
CreateUser(p) ==
    \E username \in Usernames, email \in Emails, password \in Passwords :
        /\ Begin(p, "create_user",
                 [NoArg EXCEPT !.username = username, !.email = email, !.password = password])
        /\ \/ Finish(p, RErr)
           \/ FindUserByUsername(username) # {} /\ Finish(p, RTaken)
           \/ FindUserByUsername(username) = {} /\ Goto(p, "insert_user")
        /\ UNCHANGED <<store, db, ids, hist, loc, outbox>>

\* Executor::create_user: INSERT INTO users, then generate_verification_code.
CreateUserInsert(p) ==
    /\ pc[p] = "insert_user"
    /\ \/ Finish(p, RErr) /\ UNCHANGED <<db, loc>>
       \/ /\ nextUid <= MaxUsers
          /\ users' = users \cup {User(nextUid, arg[p].username, arg[p].email,
                                       BcryptHash(arg[p].password), FALSE)}
          /\ nextUid' = nextUid + 1
          /\ \E verification_code \in Codes :
                Local(p, [NoLoc EXCEPT !.user_id = nextUid, !.email = arg[p].email,
                                       !.code = verification_code])
          /\ Goto(p, "register_code")
    /\ UNCHANGED <<store, ids, hist, op, arg, outbox>>

\* Executor::register_email_verification_code: set_ex under the verification key.
RegisterWriteIfAbsent(user_id, email, verification_code) ==
    IF IsSome(redis[VerifyKey(user_id, email)])
    THEN redis' = redis
    ELSE SetEx(VerifyKey(user_id, email), verification_code, VerifyTTL)

RegisterWrite(user_id, email, verification_code) ==
    SetEx(VerifyKey(user_id, email), verification_code, VerifyTTL)

RegisterEmailVerificationCode(p) ==
    /\ pc[p] = "register_code"
    /\ \/ Finish(p, RErr) /\ UNCHANGED store
       \/ /\ RegisterWrite(loc[p].user_id, loc[p].email, loc[p].code)
          /\ Goto(p, "send_code")
    /\ UNCHANGED <<db, ids, hist, op, arg, loc, outbox>>

\* Executor::send_email_verification_code: a failed send is logged, not returned.
SendEmailVerificationCodeOrFail(p) ==
    /\ pc[p] = "send_code"
    /\ \/ outbox' = outbox \cup {<<loc[p].email, loc[p].code>>} /\ Finish(p, RUser)
       \/ UNCHANGED outbox /\ Finish(p, RErr)
    /\ UNCHANGED <<store, db, ids, hist, op, arg, loc>>

SendEmailVerificationCode(p) ==
    /\ pc[p] = "send_code"
    /\ \/ outbox' = outbox \cup {<<loc[p].email, loc[p].code>>}
       \/ UNCHANGED outbox
    /\ Finish(p, RUser)
    /\ UNCHANGED <<store, db, ids, hist, op, arg, loc>>

\* Executor::verify_user_email_address up to the store read: find_user.
VerifyUserEmailAddress(p) ==
    \E user_id \in UserIds, verification_code \in Codes :
        /\ Begin(p, "verify", [NoArg EXCEPT !.user_id = user_id, !.code = verification_code])
        /\ \/ Finish(p, RErr) /\ UNCHANGED loc
           \/ FindUser(user_id) = {} /\ Finish(p, RFalse) /\ UNCHANGED loc
           \/ \E user \in FindUser(user_id) :
                /\ Local(p, [NoLoc EXCEPT !.user_id = user.id, !.email = user.email])
                /\ Goto(p, "get_code")
        /\ UNCHANGED <<store, db, ids, hist, outbox>>

\* The comparison of the stored code with the submitted one.
AnyStoredCode(stored_verification_code, verification_code) ==
    IsSome(stored_verification_code)

CodeMatchesOrAbsent(stored_verification_code, verification_code) ==
    stored_verification_code \in {None, Some(verification_code)}

CodeMatches(stored_verification_code, verification_code) ==
    stored_verification_code = Some(verification_code)

\* Executor::verify_user_email_address: the store read and the comparison.
VerifyGet(p) ==
    /\ pc[p] = "get_code"
    /\ LET verification_key == VerifyKey(loc[p].user_id, loc[p].email)
           stored_verification_code == Get(verification_key)
       IN \/ Finish(p, RErr) /\ UNCHANGED <<loc, mismatched>>
          \/ /\ Local(p, [loc[p] EXCEPT !.seen = stored_verification_code,
                                        !.present = IsSome(redis[verification_key]),
                                        !.was_consumed = <<loc[p].user_id, arg[p].code>> \in consumed])
             /\ IF CodeMatches(stored_verification_code, arg[p].code)
                THEN Goto(p, "del_code") /\ UNCHANGED mismatched
                ELSE /\ Finish(p, RFalse)
                     /\ mismatched' = IF IsSome(stored_verification_code)
                                      THEN mismatched \cup {loc[p].user_id} ELSE mismatched
    /\ UNCHANGED <<store, db, ids, op, arg, outbox>>
    /\ UNCHANGED <<issued, latest, loggedOut, expired, age, consumed>>

\* Executor::verify_user_email_address: the delete of the consumed code.
VerifyDel(p) ==
    /\ pc[p] = "del_code"
    /\ \/ Finish(p, RErr) /\ UNCHANGED store
       \/ Del(VerifyKey(loc[p].user_id, loc[p].email)) /\ Goto(p, "mark_verified")
    /\ UNCHANGED <<db, ids, hist, op, arg, loc, outbox>>

\* Executor::verify_user_email_address: UPDATE users SET email_verified_at.
VerifyUpdate(p) ==
    /\ pc[p] = "mark_verified"
    /\ \/ Finish(p, RErr) /\ UNCHANGED <<users, consumed>>
       \/ /\ users' = {IF u.id = arg[p].user_id THEN [u EXCEPT !.email_verified = TRUE] ELSE u
                       : u \in users}
          /\ consumed' = consumed \cup {<<arg[p].user_id, arg[p].code>>}
          /\ Finish(p, RTrue)
    /\ UNCHANGED <<store, nextUid, ids, op, arg, loc, outbox>>
    /\ UNCHANGED <<issued, latest, loggedOut, expired, age, mismatched>>

\* -------------------------------------------------------------------- time
\* One second of the store's clock: every TTL drops by one and a record whose
\* TTL reaches zero is removed.
Expiring == {k \in Keys : IsSome(redis[k]) /\ Unwrap(redis[k]).ttl = 1}

Tick ==
    /\ \E k \in Keys : IsSome(redis[k])
    /\ redis' = [k \in Keys |->
                    IF IsSome(redis[k]) /\ Unwrap(redis[k]).ttl > 1
                    THEN Some(Record(Unwrap(redis[k]).val, Unwrap(redis[k]).ttl - 1))
                    ELSE None]
    /\ expired' = expired \cup {s \in SessionIds : SessionKey(s) \in Expiring}
    /\ age' = [s \in SessionIds |-> IF age[s] < SessionTTL THEN age[s] + 1 ELSE age[s]]
    /\ UNCHANGED <<db, ids, pc, op, arg, loc, res, issued, latest, loggedOut, consumed, mismatched, outbox>>

\* The response is sent and the request is over.
Return(p) ==
    /\ pc[p] = "done"
    /\ pc' = [pc EXCEPT ![p] = "idle"]
    /\ op' = [op EXCEPT ![p] = "-"]
    /\ arg' = [arg EXCEPT ![p] = NoArg]
    /\ loc' = [loc EXCEPT ![p] = NoLoc]
    /\ res' = [res EXCEPT ![p] = NoRes]
    /\ UNCHANGED <<store, db, ids, hist, outbox>>

SessionStep(p) ==
    \/ Login(p) \/ CreateSession(p)
    \/ Refresh(p) \/ RefreshPut(p)
    \/ Logout(p)

VerificationStep(p) ==
    \/ CreateUser(p) \/ CreateUserInsert(p) \/ RegisterEmailVerificationCode(p)
    \/ SendEmailVerificationCode(p)
    \/ VerifyUserEmailAddress(p) \/ VerifyGet(p) \/ VerifyDel(p) \/ VerifyUpdate(p)

\* Requests served one after another, from an empty database and store.
Next == SessionStep(1) \/ VerificationStep(1) \/ Return(1) \/ Tick
Spec == Init /\ [][Next]_vars

\* The state session requests start from: users registered earlier, whose
\* verification codes are gone from the store (consumed or expired).
Alice == User(1, "alice", "a@x", BcryptHash("pw1"), FALSE)
Bob == User(2, "bob", "a@x", BcryptHash("pw2"), TRUE)

Registered(rows) ==
    /\ redis = [k \in Keys |-> None]
    /\ users = rows
    /\ nextSid = 1 /\ nextTid = 1 /\ nextUid = Cardinality(rows) + 1
    /\ pc = [p \in Procs |-> "idle"]
    /\ op = [p \in Procs |-> "-"]
    /\ arg = [p \in Procs |-> NoArg]
    /\ loc = [p \in Procs |-> NoLoc]
    /\ res = [p \in Procs |-> NoRes]
    /\ issued = {}
    /\ latest = [s \in SessionIds |-> None]
    /\ loggedOut = {} /\ expired = {}
    /\ age = [s \in SessionIds |-> 0]
    /\ consumed = {} /\ mismatched = {}
    /\ outbox = {}

\* Session requests served one after another.
SessionsNext == SessionStep(1) \/ Return(1) \/ Tick
Sessions == Registered({Alice, Bob}) /\ [][SessionsNext]_vars

\* Registration and verification requests served one after another.
VerificationNext == VerificationStep(1) \/ Return(1) \/ Tick
Verification == Init /\ [][VerificationNext]_vars

\* Session requests served concurrently.
ConcurrentSessionsNext == (\E p \in Procs : SessionStep(p) \/ Return(p)) \/ Tick
ConcurrentSessions == Registered({Alice}) /\ [][ConcurrentSessionsNext]_vars

\* ================================================================== claims
Done(p, name) == pc[p] = "done" /\ op[p] = name
Decodes(token) == IsSome(Decode(token, Secret))
SessionOf(token) == token.claims.session_id

\* C1: the store holds one token per session, the one most recently issued
\* for it; a refresh returns a new token only if the presented string equals
\* the string stored under its session id, and a validly signed token that
\* differs from the stored string is rejected with None.
C1_RefreshOnlyStoredToken ==
    /\ \A s \in SessionIds :
         IsSome(redis[SessionKey(s)]) =>
            /\ Get(SessionKey(s)) = latest[s]
            /\ SessionOf(Unwrap(Get(SessionKey(s)))) = s
    /\ \A p \in Procs :
         Done(p, "refresh") =>
            /\ res[p].tag = "Some" => loc[p].seen = Some(arg[p].token)
            /\ (Decodes(arg[p].token) /\ IsSome(loc[p].seen) /\ loc[p].seen # Some(arg[p].token))
                  => res[p] = RNone

\* A validly signed token with the claims of the stored token, but another
\* string, has been rejected.
C1_Witness ==
    \E p \in Procs :
        /\ Done(p, "refresh") /\ res[p] = RNone
        /\ IsSome(loc[p].seen)
        /\ arg[p].token # Unwrap(loc[p].seen)
        /\ Decodes(arg[p].token)
        /\ Decode(arg[p].token, Secret) = Decode(Unwrap(loc[p].seen), Secret)

\* C2: rotation invalidation: a refresh succeeds only for the token most
\* recently issued for its session, and without expiry or store failure a
\* refresh of that token does succeed.
C2_RotationInvalidation ==
    \A p \in Procs :
        Done(p, "refresh") =>
            /\ res[p].tag = "Some" => loc[p].was_latest
            /\ (loc[p].was_latest /\ loc[p].present /\ res[p].tag # "Err") => res[p].tag = "Some"

\* A superseded token of a live session has been rejected after its successor
\* was issued.
C2_Witness ==
    \E p \in Procs :
        /\ Done(p, "refresh") /\ res[p] = RNone
        /\ arg[p].token \in issued
        /\ loc[p].present /\ ~loc[p].was_latest
        /\ latest[SessionOf(arg[p].token)] # Some(arg[p].token)

\* C3: of the refresh calls that run concurrently on one session with the
\* same valid token, exactly one returns a new token: no two requests that
\* presented the same token have both been given a new one.
C3_OneConcurrentRefreshSucceeds ==
    \A p, q \in Procs :
        (/\ p # q
         /\ Done(p, "refresh") /\ Done(q, "refresh")
         /\ arg[p].token = arg[q].token
         /\ res[p].tag = "Some")
        => res[q].tag # "Some"

\* C4: logout finality: after a logout returned true for a session, no
\* refresh of a token of that session returns a new token and no further
\* logout of it returns true.
C4_LogoutFinality ==
    \A p \in Procs :
        /\ (Done(p, "refresh") /\ loc[p].was_logged_out) => res[p].tag \in {"None", "Err"}
        /\ (Done(p, "logout") /\ loc[p].was_logged_out) => res[p].tag \in {"False", "Err"}

\* The token that was current when its session was logged out has been
\* refused.
C4_Witness ==
    \E p \in Procs :
        /\ Done(p, "refresh") /\ res[p] = RNone
        /\ loc[p].was_logged_out /\ loc[p].was_latest

\* C5: a session's record exists only from its create to its logout or
\* expiry: once a logout has deleted the record of a session, the store holds
\* no record for that session again.
C5_NoRecordAfterLogout ==
    \A s \in loggedOut : redis[SessionKey(s)] = None

\* C6: logout decodes and deletes, with no comparison against the stored
\* token: for a token that decodes, the entry under its session id is removed
\* and the result is whether an entry existed; for a token that does not
\* decode, the result is false and the store is unchanged.
C6_LogoutDecodeOnly ==
    [][\A p \in Procs :
         (pc[p] = "idle" /\ op'[p] = "logout") =>
            LET token == arg'[p].token
                key == SessionKey(SessionOf(token))
            IN IF Decodes(token)
               THEN \/ res'[p] = RErr /\ redis' = redis
                    \/ /\ redis' = [redis EXCEPT ![key] = None]
                       /\ res'[p] = (IF IsSome(redis[key]) THEN RTrue ELSE RFalse)
               ELSE res'[p] = RFalse /\ redis' = redis]_vars

\* A superseded token of a live session has logged the session out.
C6_Witness ==
    \E p \in Procs :
        /\ Done(p, "logout") /\ res[p] = RTrue
        /\ arg[p].token \in issued
        /\ loc[p].present /\ ~loc[p].was_latest
        /\ redis[SessionKey(loc[p].session_id)] = None

\* C7: refresh preserves identity: all tokens issued for one session carry
\* the same user id and pairwise different token ids, and a successful
\* refresh returns a token for the session and user of the presented one,
\* with another token id and so another string.
C7_RefreshPreservesIdentity ==
    /\ \A t, u \in issued :
         SessionOf(t) = SessionOf(u) =>
            /\ t.claims.user_id = u.claims.user_id
            /\ t # u => t.claims.session_token_id # u.claims.session_token_id
    /\ \A p \in Procs :
         (Done(p, "refresh") /\ res[p].tag = "Some") =>
            LET old == Unwrap(Decode(arg[p].token, Secret))
                new == Unwrap(Decode(res[p].tok, Secret))
            IN /\ Decodes(res[p].tok)
               /\ new.session_id = old.session_id
               /\ new.user_id = old.user_id
               /\ new.session_token_id # old.session_token_id
               /\ res[p].tok # arg[p].token

\* A token that was itself obtained by a refresh has been refreshed: a chain
\* of three tokens of one session.
C7_Witness ==
    \E p \in Procs :
        /\ Done(p, "refresh") /\ res[p].tag = "Some"
        /\ Cardinality({t \in issued : SessionOf(t) = loc[p].session_id}) = 3

\* C8: expiry discipline: a session record's remaining TTL is the configured
\* expiration less the time since the session's last create or successful
\* refresh, so nothing else extends it and it is gone once that time has
\* elapsed; a refresh that finds the record gone returns no token and a
\* logout that finds it gone returns false.
C8_ExpiryDiscipline ==
    /\ \A s \in SessionIds :
         IF age[s] < SessionTTL /\ s \notin loggedOut /\ IsSome(latest[s])
         THEN /\ IsSome(redis[SessionKey(s)])
              /\ Unwrap(redis[SessionKey(s)]).ttl = SessionTTL - age[s]
         ELSE redis[SessionKey(s)] = None
    /\ \A p \in Procs :
         /\ (Done(p, "refresh") /\ Decodes(arg[p].token) /\ ~loc[p].present)
               => res[p].tag \in {"None", "Err"}
         /\ (Done(p, "logout") /\ Decodes(arg[p].token) /\ ~loc[p].present)
               => res[p].tag \in {"False", "Err"}

\* The last token issued for a session has been refused after the session's
\* record expired.
C8_Witness ==
    \E p \in Procs :
        /\ Done(p, "refresh") /\ res[p] = RNone
        /\ loc[p].was_latest /\ loc[p].was_expired /\ ~loc[p].was_logged_out
        /\ ~loc[p].present

\* C9: verification is single use: a check returns true only for the stored
\* code, the record is then gone, no later check of that code for that user
\* returns true, and each user's code is accepted at most once; a check of
\* the stored code that meets no store or database failure returns true.
C9_VerificationSingleUse ==
    /\ \A u \in UserIds : Cardinality({c \in consumed : c[1] = u}) <= 1
    /\ \A p \in Procs :
         Done(p, "verify") =>
            /\ res[p] = RTrue =>
                  /\ loc[p].seen = Some(arg[p].code)
                  /\ ~loc[p].was_consumed
                  /\ redis[VerifyKey(loc[p].user_id, loc[p].email)] = None
            /\ loc[p].was_consumed => res[p].tag \in {"False", "Err"}
            /\ (loc[p].seen = Some(arg[p].code) /\ res[p].tag # "Err") => res[p] = RTrue

\* The code a check accepted has been submitted again and refused.
C9_Witness ==
    \E p \in Procs :
        /\ Done(p, "verify") /\ res[p] = RFalse
        /\ loc[p].was_consumed

\* C10: a check whose code differs from the stored one returns false and
\* leaves the store (the code and its TTL) and the users table as they were.
C10_MismatchNonConsuming ==
    [][\A p \in Procs :
         (/\ pc[p] = "get_code" /\ pc'[p] # "get_code"
          /\ Get(VerifyKey(loc[p].user_id, loc[p].email)) # Some(arg[p].code)
          /\ res'[p] # RErr)
         => (res'[p] = RFalse /\ redis' = redis /\ users' = users)]_vars

\* The registered code has been accepted after a check with another code
\* failed on the same pending record.
C10_Witness ==
    \E p \in Procs :
        /\ Done(p, "verify") /\ res[p] = RTrue
        /\ arg[p].user_id \in mismatched

\* ------------------------------------------- concurrent verification checks
\* The state after create_user has returned for alice: her row in the users
\* table and her verification code pending in the store.
PendingVerification ==
    /\ redis = [k \in Keys |-> IF k = VerifyKey(Alice.id, Alice.email)
                                THEN Some(Record("ABCDEF", VerifyTTL)) ELSE None]
    /\ users = {Alice}
    /\ nextSid = 1 /\ nextTid = 1 /\ nextUid = 2
    /\ pc = [p \in Procs |-> "idle"]
    /\ op = [p \in Procs |-> "-"]
    /\ arg = [p \in Procs |-> NoArg]
    /\ loc = [p \in Procs |-> NoLoc]
    /\ res = [p \in Procs |-> NoRes]
    /\ issued = {}
    /\ latest = [s \in SessionIds |-> None]
    /\ loggedOut = {} /\ expired = {}
    /\ age = [s \in SessionIds |-> 0]
    /\ consumed = {} /\ mismatched = {}
    /\ outbox = {<<Alice.email, "ABCDEF">>}

CheckStep(p) ==
    \/ VerifyUserEmailAddress(p) \/ VerifyGet(p) \/ VerifyDel(p) \/ VerifyUpdate(p)

\* Verification checks served concurrently.
ConcurrentChecksNext == (\E p \in Procs : CheckStep(p) \/ Return(p)) \/ Tick
ConcurrentChecks == PendingVerification /\ [][ConcurrentChecksNext]_vars

\* C11: of the checks that run concurrently for one user with the registered
\* code, at most one returns true: no two requests in flight together have
\* both had the same code of the same user accepted.
C11_OneConcurrentCheckAccepts ==
    \A p, q \in Procs :
        (/\ p # q
         /\ Done(p, "verify") /\ Done(q, "verify")
         /\ arg[p].user_id = arg[q].user_id /\ arg[p].code = arg[q].code
         /\ res[p] = RTrue)
        => res[q] # RTrue

\* ------------------------------------------------------ the GraphQL boundary
\* What a mutation field answers: a value, or a FieldError carrying a code.
FieldError(code) == [ok |-> FALSE, code |-> code, value |-> NoRes]
FieldOk(value) == [ok |-> TRUE, code |-> "", value |-> value]

\* convert_result: every Err of the executor becomes the one generic error.
ConvertResultHidingError(result) ==
    IF result = RErr THEN FieldOk(RFalse) ELSE FieldOk(result)

ConvertResult(result) ==
    IF result = RErr THEN FieldError("unknown-error") ELSE FieldOk(result)

\* Mutation::login, over the result of Executor::login.
MutationLogin(p) ==
    IF ~ConvertResult(res[p]).ok THEN ConvertResult(res[p])
    ELSE IF res[p].tag = "Some" THEN FieldOk(res[p])
    ELSE FieldError("invalid-login")

\* Mutation::refresh, over the result of Executor::refresh.
MutationRefreshNamingCause(p) ==
    IF ~ConvertResult(res[p]).ok THEN ConvertResult(res[p])
    ELSE IF res[p].tag = "Some" THEN FieldOk(res[p])
    ELSE IF loc[p].present THEN FieldError("invalid-session-token")
    ELSE FieldError("session-not-found")

MutationRefresh(p) ==
    IF ~ConvertResult(res[p]).ok THEN ConvertResult(res[p])
    ELSE IF res[p].tag = "Some" THEN FieldOk(res[p])
    ELSE FieldError("invalid-session-token")

\* Mutation::logout, over the result of Executor::logout.
MutationLogout(p) == ConvertResult(res[p])

\* C12: authentication failures are indistinguishable at the boundary.  A
\* finished refresh whose token did not decode, whose session was absent or
\* expired, or whose token was not the stored one answers the one
\* 'invalid-session-token' error; a finished logout answers false for an
\* undecodable token and for an absent session alike; a finished login
\* answers the one 'invalid-login' error for an unknown username and for a
\* wrong password alike (requests that met a store or database failure aside).
C12_AuthFailuresIndistinguishable ==
    \A p \in Procs :
        /\ (/\ Done(p, "refresh") /\ res[p] # RErr
            /\ \/ Decode(arg[p].token, Secret) = None
               \/ ~loc[p].present
               \/ loc[p].seen # Some(arg[p].token))
           => /\ res[p] = RNone
              /\ MutationRefresh(p) = FieldError("invalid-session-token")
        /\ (/\ Done(p, "logout") /\ res[p] # RErr
            /\ \/ Decode(arg[p].token, Secret) = None
               \/ ~loc[p].present)
           => /\ res[p] = RFalse
              /\ MutationLogout(p) = FieldOk(RFalse)
        /\ (/\ Done(p, "login") /\ res[p] # RErr
            /\ \/ FindUserByUsername(arg[p].username) = {}
               \/ \A u \in FindUserByUsername(arg[p].username) :
                      u.password_hash # BcryptHash(arg[p].password))
           => /\ res[p] = RNone
              /\ MutationLogin(p) = FieldError("invalid-login")

\* A refresh presenting a superseded token of a live session was refused.
C12_Witness ==
    \E p \in Procs :
        /\ Done(p, "refresh") /\ res[p] = RNone
        /\ IsSome(Decode(arg[p].token, Secret))
        /\ loc[p].present /\ ~loc[p].was_latest
        /\ arg[p].token \in issued

\* Mutation::create_user, over the username lookup and Executor::create_user.
MutationCreateUser(p) ==
    IF ~ConvertResult(res[p]).ok THEN ConvertResult(res[p])
    ELSE IF res[p] = RTaken THEN FieldError("username-taken")
    ELSE FieldOk(res[p])

\* Mutation::verify_user_email_address.
MutationVerifyUserEmailAddress(p) == ConvertResult(res[p])

\* The answer to the finished request p.
Response(p) ==
    CASE op[p] = "login" -> MutationLogin(p)
      [] op[p] = "refresh" -> MutationRefresh(p)
      [] op[p] = "logout" -> MutationLogout(p)
      [] op[p] = "create_user" -> MutationCreateUser(p)
      [] op[p] = "verify" -> MutationVerifyUserEmailAddress(p)
      [] OTHER -> FieldOk(NoRes)

\* All requests served one after another, alice registered earlier.
Service == Registered({Alice}) /\ [][Next]_vars

\* The steps in which a store call of request p can only have failed: the
\* request ended where the successful call goes on or returns a token.
\* create and the write of refresh end without a token; register and the
\* delete of check end at all; the read of refresh ends although the stored
\* token is the presented one; the read of check ends although the stored
\* code is the submitted one; logout ends with the record still in place.
StoreCallFailed(p) ==
    /\ pc'[p] = "done"
    /\ \/ pc[p] \in {"create_session", "refresh_put"} /\ res'[p].tag # "Some"
       \/ pc[p] \in {"register_code", "del_code"}
       \/ /\ pc[p] = "get_code"
          /\ CodeMatches(Get(VerifyKey(loc[p].user_id, loc[p].email)), arg[p].code)
       \/ /\ pc[p] = "idle" /\ op'[p] = "refresh"
          /\ IsSome(Decode(arg'[p].token, Secret))
          /\ FindSession(Unwrap(Decode(arg'[p].token, Secret)).session_id) = Some(arg'[p].token)
       \/ /\ pc[p] = "idle" /\ op'[p] = "logout"
          /\ IsSome(Decode(arg'[p].token, Secret))
          /\ IsSome(redis[SessionKey(Unwrap(Decode(arg'[p].token, Secret)).session_id)])
          /\ redis' = redis

\* C13: a store failure during create, refresh, logout, register or check is
\* returned as an error, never as None or false; the boundary reports it as
\* 'unknown-error', which is none of the authentication-failure answers; the
\* failed call left the store as it was and is not retried: the request is
\* over, and a request that ended in an error does nothing more than return.
C13_StoreFailureIsError ==
    [][\A p \in Procs :
         /\ StoreCallFailed(p)
            => /\ res'[p] = RErr
               /\ redis' = redis
               /\ Response(p)' = FieldError("unknown-error")
               /\ Response(p)' \notin {FieldError("invalid-session-token"),
                                       FieldError("invalid-login"), FieldOk(RFalse)}
         /\ (pc[p] = "done" /\ res[p] = RErr /\ pc'[p] # "done")
            => pc'[p] = "idle" /\ redis' = redis]_vars

\* A check whose read found the submitted code, and whose delete then failed,
\* ended in an error.
C13_Witness ==
    \E p \in Procs :
        /\ Done(p, "verify") /\ res[p] = RErr
        /\ loc[p].seen = Some(arg[p].code)
        /\ IsSome(redis[VerifyKey(loc[p].user_id, loc[p].email)])

\* C14: a failed send of the verification email does not fail create_user.
\* Every step that ends the send, delivered or not, returns the created
\* user, with the user's row in the table and the table and the store left
\* as they are, the registered code still pending unless its TTL ran out;
\* and a check that read the submitted code ends in true (or in an error of
\* the store or the database), whether or not the email was delivered.
C14_SendFailureSwallowed ==
    [][\A p \in Procs :
         /\ (pc[p] = "send_code" /\ pc'[p] # "send_code")
            => /\ pc'[p] = "done" /\ res'[p] = RUser
               /\ MutationCreateUser(p)' = FieldOk(RUser)
               /\ users' = users /\ redis' = redis
               /\ \E u \in FindUser(loc[p].user_id) :
                      u.username = arg[p].username /\ u.email = loc[p].email
               /\ Get(VerifyKey(loc[p].user_id, loc[p].email)) \in {Some(loc[p].code), None}
         /\ (/\ pc[p] \in {"del_code", "mark_verified"} /\ pc'[p] = "done"
             /\ <<loc[p].email, arg[p].code>> \notin outbox)
            => res'[p] \in {RTrue, RErr}]_vars

\* The email of a created user was never delivered, and a check with the
\* registered code returned true.
C14_Witness ==
    \E p \in Procs :
        /\ Done(p, "verify") /\ res[p] = RTrue
        /\ loc[p].seen = Some(arg[p].code)
        /\ <<loc[p].email, arg[p].code>> \notin outbox

\* C15: create_session makes exactly one store write.  The step that returns
\* a token stores that very string, with the configured TTL, under the
\* session id of the token, an id no token issued before carries and under
\* which nothing is stored; the token decodes to the user the session was
\* asked for; every other record of the store is as it was.  The step that
\* fails writes nothing.
C15_CreateWritesOnce ==
    [][\A p \in Procs :
         (pc[p] = "create_session" /\ pc'[p] # "create_session")
         => \/ res'[p] = RErr /\ redis' = redis
            \/ /\ res'[p].tag = "Some"
               /\ LET session_token == res'[p].tok
                      session_id == session_token.claims.session_id
                  IN /\ \A t \in issued : t.claims.session_id # session_id
                     /\ redis[SessionKey(session_id)] = None
                     /\ IsSome(Decode(session_token, Secret))
                     /\ Unwrap(Decode(session_token, Secret)).user_id = loc[p].user_id
                     /\ redis'[SessionKey(session_id)] = Some(Record(session_token, SessionTTL))
                     /\ \A k \in Keys \ {SessionKey(session_id)} : redis'[k] = redis[k]]_vars

\* A login created a second session while the record of the first was in
\* the store.
C15_Witness ==
    \E p \in Procs :
        /\ Done(p, "login") /\ res[p].tag = "Some"
        /\ \E s \in SessionIds :
              /\ s # res[p].tok.claims.session_id
              /\ IsSome(redis[SessionKey(s)])
        /\ Get(SessionKey(res[p].tok.claims.session_id)) = Some(res[p].tok)

\* ------------------------------------------------- the token codec, alone
\* SessionToken::encode, decode and verify applied to every claims value and
\* every pair of secrets, and to what can be made of an encoded token.
TokenDatas ==
    {SessionTokenData(s, t, u) : s \in SessionIds, t \in TokenIds, u \in UserIds}
Secrets == {Secret, OtherSecret}

CodecArg(data, secret, secret2) == [data |-> data, secret |-> secret, secret2 |-> secret2]
CodecLoc(token, unverified) == [token |-> token, unverified |-> unverified]

\* The claims of t serialised differently and signed with the same key.
ReserialisedWith(t, secret) == TokenString("alt", t.claims, Hmac("alt", t.claims, secret))

\* Strings made from t without the key: other claims, another header or an
\* unparsable one under the old signature, and a string that is no token.
Tampered(t) ==
    {[t EXCEPT !.claims = d] : d \in TokenDatas \ {t.claims}}
        \cup {[t EXCEPT !.hdr = h] : h \in {"alt", "junk"}}
        \cup {Junk}

CodecInit ==
    /\ redis = [k \in Keys |-> None]
    /\ users = {}
    /\ nextSid = 1 /\ nextTid = 1 /\ nextUid = 1
    /\ pc = [p \in Procs |-> "idle"]
    /\ op = [p \in Procs |-> IF p = 1 THEN "codec" ELSE "-"]
    /\ \E data \in TokenDatas, secret \in Secrets, secret2 \in Secrets :
          arg = [p \in Procs |-> IF p = 1 THEN CodecArg(data, secret, secret2) ELSE NoArg]
    /\ loc = [p \in Procs |-> NoLoc]
    /\ res = [p \in Procs |-> NoRes]
    /\ issued = {}
    /\ latest = [s \in SessionIds |-> None]
    /\ loggedOut = {} /\ expired = {}
    /\ age = [s \in SessionIds |-> 0]
    /\ consumed = {} /\ mismatched = {}
    /\ outbox = {}

\* SessionToken::encode(data, secret).
CodecEncode(p) ==
    /\ pc[p] = "idle" /\ op[p] = "codec"
    /\ LET token == Encode(arg[p].data, arg[p].secret)
       IN Local(p, CodecLoc(token, token))
    /\ Goto(p, "encoded")
    /\ UNCHANGED <<store, db, ids, hist, op, arg, outbox>>

\* The string handed back: the token, a re-serialisation of it, or a
\* tampered one.
CodecPresent(p) ==
    /\ pc[p] = "encoded"
    /\ \E unverified \in {loc[p].token, ReserialisedWith(loc[p].token, arg[p].secret)}
                            \cup Tampered(loc[p].token) :
          Local(p, CodecLoc(loc[p].token, unverified))
    /\ Goto(p, "presented")
    /\ UNCHANGED <<store, db, ids, hist, op, arg, outbox>>

\* SessionToken::decode(token, secret2).
CodecDecode(p) ==
    /\ pc[p] = "presented"
    /\ pc' = [pc EXCEPT ![p] = "decoded"]
    /\ res' = [res EXCEPT ![p] = [tag |-> "decoded",
                                  data |-> Decode(loc[p].unverified, arg[p].secret2)]]
    /\ UNCHANGED <<store, db, ids, hist, op, arg, loc, outbox>>

\* SessionToken::verify(token, secret2).
CodecVerify(p) ==
    /\ pc[p] = "presented"
    /\ pc' = [pc EXCEPT ![p] = "verified"]
    /\ res' = [res EXCEPT ![p] = [tag |-> "verified",
                                  tok |-> Verify(loc[p].unverified, arg[p].secret2)]]
    /\ UNCHANGED <<store, db, ids, hist, op, arg, loc, outbox>>

\* The token encoded under the configured secret is stored as create_session
\* stores it.
CodecPut(p) ==
    /\ pc[p] = "encoded" /\ arg[p].secret = Secret
    /\ PutSession(loc[p].token)
    /\ Goto(p, "stored")
    /\ UNCHANGED <<db, ids, hist, op, arg, loc, outbox>>

\* Executor::find_session on the stored token.
CodecFind(p) ==
    /\ pc[p] = "stored"
    /\ pc' = [pc EXCEPT ![p] = "found"]
    /\ res' = [res EXCEPT ![p] = [tag |-> "found",
                                  tok |-> FindSession(loc[p].token.claims.session_id)]]
    /\ UNCHANGED <<store, db, ids, hist, op, arg, loc, outbox>>

CodecNext ==
    \/ CodecEncode(1) \/ CodecPresent(1)
    \/ CodecDecode(1) \/ CodecVerify(1)
    \/ CodecPut(1) \/ CodecFind(1)
Codec == CodecInit /\ [][CodecNext]_vars

\* C16: round trip.  Decoding, under the secret it was encoded with, the
\* string encode returned gives Some of the encoded data, with the same
\* session_id, session_token_id and user_id.
C16_RoundTrip ==
    \A p \in Procs :
        (/\ op[p] = "codec" /\ pc[p] = "decoded"
         /\ loc[p].unverified = loc[p].token
         /\ arg[p].secret2 = arg[p].secret)
        => /\ res[p].data = Some(arg[p].data)
           /\ Unwrap(res[p].data).session_id = arg[p].data.session_id
           /\ Unwrap(res[p].data).session_token_id = arg[p].data.session_token_id
           /\ Unwrap(res[p].data).user_id = arg[p].data.user_id

\* An encoded token was decoded under its own secret.
C16_Witness ==
    \E p \in Procs :
        /\ op[p] = "codec" /\ pc[p] = "decoded"
        /\ loc[p].unverified = loc[p].token
        /\ arg[p].secret2 = arg[p].secret
        /\ IsSome(res[p].data)
        /\ Unwrap(res[p].data).user_id = MaxUsers

\* C17: wrong key rejection.  Decoding an encoded token under a secret other
\* than the one it was encoded with gives None; decoding a tampered or
\* malformed string gives None under every secret; and decode answers None
\* or Some(data), nothing else.
C17_WrongKeyRejected ==
    \A p \in Procs :
        (op[p] = "codec" /\ pc[p] = "decoded")
        => /\ (loc[p].unverified = loc[p].token /\ arg[p].secret2 # arg[p].secret)
              => res[p].data = None
           /\ loc[p].unverified \in Tampered(loc[p].token) => res[p].data = None
           /\ res[p].data \in {None} \cup {Some(d) : d \in TokenDatas}

\* An encoded token was decoded under the other secret.
C17_Witness ==
    \E p \in Procs :
        /\ op[p] = "codec" /\ pc[p] = "decoded"
        /\ loc[p].unverified = loc[p].token
        /\ arg[p].secret2 # arg[p].secret
        /\ res[p].data = None

\* ------------------------------------ register and check, called directly
ROk == [tag |-> "Ok", tok |-> Junk]

\* register_email_verification_code(user_id, email, verification_code) called
\* for a user of the table; loc keeps what was pending before the write.
Register(p) ==
    \E u \in users, verification_code \in Codes :
        /\ Begin(p, "register", [NoArg EXCEPT !.user_id = u.id, !.email = u.email,
                                              !.code = verification_code])
        /\ \/ Finish(p, RErr) /\ UNCHANGED <<store, loc>>
           \/ /\ RegisterWrite(u.id, u.email, verification_code)
              /\ Local(p, [NoLoc EXCEPT !.user_id = u.id, !.email = u.email,
                                        !.seen = Get(VerifyKey(u.id, u.email)),
                                        !.present = IsSome(redis[VerifyKey(u.id, u.email)])])
              /\ Finish(p, ROk)
        /\ UNCHANGED <<db, ids, hist, outbox>>

\* Calls made one after another: request 1 registers, request 2 checks.  A
\* check starts only between registrations, and a registration only once
\* the check before it has returned.
RegisterCall == pc[2] = "idle" /\ Register(1)
RegisterReturn == pc[2] = "idle" /\ Return(1)
CheckCall == pc[1] \in {"idle", "done"} /\ CheckStep(2)
CheckReturn == pc[1] \in {"idle", "done"} /\ Return(2)

RegistrationNext == RegisterCall \/ RegisterReturn \/ CheckCall \/ CheckReturn \/ Tick
Registration == Registered({Alice}) /\ [][RegistrationNext]_vars

\* C18: register writes the code under the key of the (user_id, email) pair
\* with the verification TTL, whatever was pending there, and changes no
\* other record; and after a registration a check for that user with any
\* other code, the one previously pending included, returns false, while a
\* check with the registered code returns true as long as the code is
\* pending (checks that met a store or database error aside).
C18_RegisterOverwrites ==
    /\ [][\A p \in Procs :
            (pc[p] = "idle" /\ op'[p] = "register" /\ res'[p] = ROk)
            => redis' = [redis EXCEPT ![VerifyKey(arg'[p].user_id, arg'[p].email)] =
                                          Some(Record(arg'[p].code, VerifyTTL))]]_vars
    /\ [](\A p, q \in Procs :
            (/\ Done(p, "register") /\ res[p] = ROk
             /\ Done(q, "verify") /\ res[q] # RErr
             /\ arg[q].user_id = arg[p].user_id)
            => /\ arg[q].code # arg[p].code => res[q] = RFalse
               /\ (arg[q].code = arg[p].code /\ loc[q].present) => res[q] = RTrue)

\* A second registration replaced a pending code, and a check with the
\* replaced code returned false.
C18_Witness ==
    \E p, q \in Procs :
        /\ Done(p, "register") /\ res[p] = ROk
        /\ IsSome(loc[p].seen) /\ Unwrap(loc[p].seen) # arg[p].code
        /\ Done(q, "verify") /\ arg[q].user_id = arg[p].user_id
        /\ arg[q].code = Unwrap(loc[p].seen)
        /\ loc[q].present /\ res[q] = RFalse

\* The users whose username and stored password hash the login of request p
\* matches.
Matching(p) ==
    {u \in users : u.username = arg[p].username /\ u.password_hash = BcryptHash(arg[p].password)}

\* C19: login goes on to create a session, and returns a token, only when a
\* user with the username exists and the password matches the stored hash;
\* the token then carries that user's id and was stored, with the session
\* TTL, under its session id by the step that returned it.  In every other
\* case login returns None (a database failure aside, which is an error),
\* and no step of a login that returns no token changes the store.
C19_LoginSafety ==
    /\ [](\A p \in Procs :
            op[p] = "login"
            => /\ (pc[p] = "create_session" \/ res[p].tag = "Some") => Matching(p) # {}
               /\ (pc[p] = "done" /\ res[p].tag = "Some")
                  => /\ IsSome(Decode(res[p].tok, Secret))
                     /\ \E u \in Matching(p) :
                           Unwrap(Decode(res[p].tok, Secret)).user_id = u.id
                     /\ res[p].tok \in issued
               /\ (pc[p] = "done" /\ Matching(p) = {} /\ res[p] # RErr) => res[p] = RNone)
    /\ [][\A p \in Procs :
            (op'[p] = "login" /\ pc'[p] # pc[p])
            => IF res'[p].tag = "Some"
               THEN redis' = [redis EXCEPT ![SessionKey(res'[p].tok.claims.session_id)] =
                                               Some(Record(res'[p].tok, SessionTTL))]
               ELSE redis' = redis]_vars

\* bob logged in with his password and holds a token of his own, stored
\* under its session id.
C19_Witness ==
    \E p \in Procs :
        /\ Done(p, "login") /\ res[p].tag = "Some"
        /\ arg[p].username = Bob.username
        /\ res[p].tok.claims.user_id = Bob.id
        /\ Get(SessionKey(res[p].tok.claims.session_id)) = Some(res[p].tok)

\* C20: verify is not a behavioural transformation.  For every presented
\* string that decodes under the secret, verify returns a token that decodes
\* to the same data; for the string encode produced, verified under the
\* secret it was encoded with, verify returns that very string; hence
\* find_session returns exactly the stored string, which passes the equality
\* check of refresh when presented.
C20_VerifyPreserves ==
    \A p \in Procs :
        op[p] = "codec"
        => /\ (pc[p] = "verified" /\ IsSome(Decode(loc[p].unverified, arg[p].secret2)))
              => /\ IsSome(res[p].tok)
                 /\ Decode(Unwrap(res[p].tok), arg[p].secret2)
                        = Decode(loc[p].unverified, arg[p].secret2)
           /\ (pc[p] = "verified" /\ Decode(loc[p].unverified, arg[p].secret2) = None)
              => res[p].tok = None
           /\ (/\ pc[p] = "verified"
               /\ loc[p].unverified = loc[p].token
               /\ arg[p].secret2 = arg[p].secret)
              => res[p].tok = Some(loc[p].token)
           /\ pc[p] = "found"
              => /\ res[p].tok = Some(loc[p].token)
                 /\ res[p].tok = Get(SessionKey(loc[p].token.claims.session_id))
                 /\ IsCurrent(Unwrap(res[p].tok), loc[p].token)

\* verify was given a re-serialisation of an encoded token and returned the
\* encoded token, a different string with the same claims.
C20_Witness ==
    \E p \in Procs :
        /\ op[p] = "codec" /\ pc[p] = "verified"
        /\ loc[p].unverified # loc[p].token
        /\ res[p].tok = Some(loc[p].token)

\* C21: a refresh that returns None changes nothing in the store.  The step
\* in which a refresh ends with None, for an undecodable token, an absent
\* session or a token other than the stored one, leaves every record, the
\* session's stored token and its remaining TTL included, as it was.
C21_RejectedRefreshChangesNothing ==
    [][\A p \in Procs :
         (op'[p] = "refresh" /\ pc'[p] = "done" /\ pc[p] # "done" /\ res'[p] = RNone)
         => redis' = redis]_vars

\* A refresh with a superseded token was refused while the session's record
\* holds the latest token.
C21_Witness ==
    \E p \in Procs :
        /\ Done(p, "refresh") /\ res[p] = RNone
        /\ loc[p].present /\ ~loc[p].was_latest
        /\ arg[p].token \in issued
        /\ Get(SessionKey(loc[p].session_id)) = latest[loc[p].session_id]
        /\ Get(SessionKey(loc[p].session_id)) # Some(arg[p].token)

\* -------------------------------------------- the verification code, alone
\* Characters are their ASCII codes.
CharA == 65
CharZ == 90
CodeLength == 6
UppercaseLetters == CharA..CharZ

\* rng.gen_range(low..high): uniform over the half-open range.
GenRange(low, high) == low..(high - 1)

\* The collector of generate_verification_code: how many characters were
\* collected, the character drawn last, and the values that draw could give.
CodeLoc(n, c, support) == [n |-> n, c |-> c, support |-> support]

GenerationInit ==
    /\ redis = [k \in Keys |-> None]
    /\ users = {}
    /\ nextSid = 1 /\ nextTid = 1 /\ nextUid = 1
    /\ pc = [p \in Procs |-> "idle"]
    /\ op = [p \in Procs |-> IF p = 1 THEN "generate" ELSE "-"]
    /\ arg = [p \in Procs |-> NoArg]
    /\ loc = [p \in Procs |-> IF p = 1 THEN CodeLoc(0, 0, {}) ELSE NoLoc]
    /\ res = [p \in Procs |-> NoRes]
    /\ issued = {}
    /\ latest = [s \in SessionIds |-> None]
    /\ loggedOut = {} /\ expired = {}
    /\ age = [s \in SessionIds |-> 0]
    /\ consumed = {} /\ mismatched = {}
    /\ outbox = {}

\* One iteration of (0..6).map(|_| rng.gen_range('A'..'Z')); the collect
\* ends after the sixth.
GenerateVerificationCode(p) ==
    /\ op[p] = "generate" /\ pc[p] \in {"idle", "collect"}
    /\ loc[p].n < CodeLength
    /\ \E c \in GenRange(CharA, CharZ) :
          Local(p, CodeLoc(loc[p].n + 1, c, GenRange(CharA, CharZ)))
    /\ pc' = [pc EXCEPT ![p] = IF loc[p].n + 1 = CodeLength THEN "done" ELSE "collect"]
    /\ UNCHANGED <<store, db, ids, hist, op, arg, res, outbox>>

GenerationNext == GenerateVerificationCode(1)
Generation == GenerationInit /\ [][GenerationNext]_vars

\* C22: the generated code has exactly 6 characters, each an uppercase ASCII
\* letter, and at every position each of the 26 letters 'A' through 'Z' is
\* a value the draw can give.
C22_CodeShape ==
    \A p \in Procs :
        (op[p] = "generate" /\ pc[p] \in {"collect", "done"})
        => /\ loc[p].n \in 1..CodeLength
           /\ pc[p] = "done" <=> loc[p].n = CodeLength
           /\ loc[p].c \in UppercaseLetters
           /\ loc[p].support = UppercaseLetters

\* C23: verify_user_email_address returns false without reading or changing
\* the store when no user has the given id (a database failure aside): the
\* request ends in its first step.  And a user becomes email-verified only
\* in the last step of a check for that user whose submitted code was equal
\* to the code read from the store under the user's id and email.
C23_VerifyOnlyOnMatch ==
    [][\A p \in Procs :
         /\ (/\ pc[p] = "idle" /\ op'[p] = "verify"
             /\ \A u \in users : u.id # arg'[p].user_id
             /\ res'[p] # RErr)
            => /\ pc'[p] = "done" /\ res'[p] = RFalse
               /\ redis' = redis /\ users' = users
               /\ loc'[p] = NoLoc
         /\ \A u \in users' :
               (u.email_verified /\ u \notin users)
               => \E q \in Procs :
                     /\ pc[q] = "mark_verified" /\ res'[q] = RTrue
                     /\ arg[q].user_id = u.id
                     /\ loc[q].user_id = u.id /\ loc[q].email = u.email
                     /\ loc[q].seen = Some(arg[q].code)]_vars

\* A check for an id no user has returned false while a code of another
\* user is pending in the store.
C23_Witness ==
    \E p \in Procs :
        /\ Done(p, "verify") /\ res[p] = RFalse
        /\ \A u \in users : u.id # arg[p].user_id
        /\ loc[p] = NoLoc
        /\ \E u \in users : IsSome(redis[VerifyKey(u.id, u.email)])

\* C24: user creation is all-or-nothing with respect to its verification
\* record.  When create_user has returned an error, no user row carries the
\* id the call generated; when it has returned a user, the code of the call
\* is registered under the (id, email) of that user, unless its TTL has run
\* out since.
C24_CreateUserAllOrNothing ==
    \A p \in Procs :
        Done(p, "create_user")
        => /\ res[p] = RErr => \A u \in users : u.id # loc[p].user_id
           /\ res[p] = RUser
              => /\ \E u \in users : u.id = loc[p].user_id /\ u.email = loc[p].email
                 /\ Get(VerifyKey(loc[p].user_id, loc[p].email)) \in {Some(loc[p].code), None}

\* C25: a verification code is consumed only together with a completed
\* verification.  Once a check has deleted the stored code, its last step
\* returns true with the user marked email-verified; and a step in which a
\* check ends in an error leaves the store as it was and belongs to a check
\* that has not deleted the code.
C25_ConsumedOnlyWhenVerified ==
    [][\A p \in Procs :
         /\ (pc[p] = "mark_verified" /\ pc'[p] = "done")
            => /\ res'[p] = RTrue
               /\ \E u \in users' : u.id = arg[p].user_id /\ u.email_verified
         /\ (/\ op'[p] = "verify" /\ pc[p] # "done" /\ pc'[p] = "done"
             /\ res'[p] = RErr)
            => /\ redis' = redis
               /\ pc[p] # "mark_verified"]_vars

\* ------------------------------------------------- the keys, as strings
\* Uuid::to_string: 36 characters, whatever the id.
UuidString(id) == "00000000-0000-4000-8000-00000000000" \o ToString(id)

\* create_email_verification_key: format!("verify/{}/{}", user_id, email).
CreateEmailVerificationKey(user_id, email) ==
    "verify/" \o UuidString(user_id) \o "/" \o email

\* The string under which the record of key k is stored.
KeyString(k) ==
    IF k[1] = "session" THEN UuidString(k[2]) ELSE CreateEmailVerificationKey(k[2], k[3])

\* Emails as a client can choose them, slashes included.
EmailStrings == Emails \cup {"a@x/b", "b/a@x"}
AllKeys ==
    {SessionKey(s) : s \in SessionIds} \cup {VerifyKey(u, e) : u \in UserIds, e \in EmailStrings}

\* The one key the request p is about, once the step has been taken: the
\* session of its token, or the verification key of its user.
OwnKeys(p) ==
    CASE op'[p] = "login" ->
            IF res'[p].tag = "Some" THEN {SessionKey(res'[p].tok.claims.session_id)} ELSE {}
      [] op'[p] \in {"refresh", "logout"} ->
            IF IsSome(Decode(arg'[p].token, Secret))
            THEN {SessionKey(Unwrap(Decode(arg'[p].token, Secret)).session_id)} ELSE {}
      [] op'[p] \in {"create_user", "verify"} -> {VerifyKey(loc'[p].user_id, loc'[p].email)}
      [] OTHER -> {}

\* All requests served one after another while alice's code is pending and
\* no record expires.
IsolationNext == SessionStep(1) \/ VerificationStep(1) \/ Return(1)
Isolation == PendingVerification /\ [][IsolationNext]_vars

\* C26: store records are isolated by key.  A step of a session request
\* changes at most the record of its own session, a step of a registration
\* or check at most the verification record of its own (user_id, email)
\* pair; and the string under which a changed record is stored is the
\* string of no other session and of no other (user_id, email) pair.
C26_IsolatedByKey ==
    [][\A p \in Procs :
         pc'[p] # pc[p]
         => \A k \in Keys :
               redis'[k] # redis[k]
               => /\ k \in OwnKeys(p)
                  /\ \A k2 \in AllKeys \ {k} : KeyString(k2) # KeyString(k)]_vars

\* A check consumed the code of one user while a session record and the
\* pending code of another user are in the store.
C26_Witness ==
    \E p \in Procs :
        /\ Done(p, "verify") /\ res[p] = RTrue
        /\ redis[VerifyKey(loc[p].user_id, loc[p].email)] = None
        /\ \E u \in users : u.id # loc[p].user_id /\ IsSome(redis[VerifyKey(u.id, u.email)])
        /\ \E s \in SessionIds : IsSome(redis[SessionKey(s)])

\* ------------------------------------ Mutation::create_user, with its checks
MIN_PASSWORD_LENGTH == 6
MAX_PASSWORD_LENGTH == 255

\* A string of chars characters, each taking width bytes in UTF-8 (1 for an
\* ASCII character, 2 for a character such as an accented letter).
Text(chars, width) == [chars |-> chars, width |-> width]

\* String::len: the length in bytes.
StrLen(string) == string.chars * string.width

\* What a client can send: empty and non-empty names and emails, passwords
\* at and next to both length limits, in one-byte and two-byte characters.
UsernameInputs == Usernames \cup {""}
EmailInputs == Emails \cup {""}
PasswordInputs ==
    {Text(chars, width) :
        chars \in {MIN_PASSWORD_LENGTH \div 2, MIN_PASSWORD_LENGTH - 1, MIN_PASSWORD_LENGTH,
                   MAX_PASSWORD_LENGTH, MAX_PASSWORD_LENGTH + 1},
        width \in 1..2}

Rejected(code) == [tag |-> code, tok |-> Junk]

PasswordTooShort(password) == StrLen(password) < MIN_PASSWORD_LENGTH
PasswordTooLong(password) == StrLen(password) > MAX_PASSWORD_LENGTH

\* Mutation::create_user up to Executor::create_user: the checks in their
\* order, the username lookup among them.
CreateUserRequest(p) ==
    \E username \in UsernameInputs, email \in EmailInputs, password \in PasswordInputs :
        /\ Begin(p, "create_user",
                 [NoArg EXCEPT !.username = username, !.email = email, !.password = password])
        /\ IF username = ""
           THEN Finish(p, Rejected("username-empty"))
           ELSE \/ Finish(p, RErr)
                \/ FindUserByUsername(username) # {} /\ Finish(p, RTaken)
                \/ /\ FindUserByUsername(username) = {}
                   /\ IF email = "" THEN Finish(p, Rejected("email-empty"))
                      ELSE IF PasswordTooShort(password)
                           THEN Finish(p, Rejected("password-too-short"))
                      ELSE IF PasswordTooLong(password)
                           THEN Finish(p, Rejected("password-too-long"))
                      ELSE Goto(p, "insert_user")
        /\ UNCHANGED <<store, db, ids, hist, loc, outbox>>

\* Sign-up requests served one after another.
SignupNext ==
    \/ CreateUserRequest(1) \/ CreateUserInsert(1) \/ RegisterEmailVerificationCode(1)
    \/ SendEmailVerificationCode(1) \/ Return(1) \/ Tick
Signup == Init /\ [][SignupNext]_vars

\* The error codes of the rules the request a breaks, the password measured
\* in characters.
Violations(a) ==
    {c \in {"username-empty", "username-taken", "email-empty",
            "password-too-short", "password-too-long"} :
        \/ c = "username-empty" /\ a.username = ""
        \/ c = "username-taken" /\ \E u \in users : u.username = a.username
        \/ c = "email-empty" /\ a.email = ""
        \/ c = "password-too-short" /\ a.password.chars < 6
        \/ c = "password-too-long" /\ a.password.chars > 255}

\* C27: the create_user mutation rejects every request that breaks a rule
\* (empty username, username in use, empty email, password shorter than 6
\* or longer than 255 characters) in its first step, with the error code of
\* a rule it breaks and with the table, the store and the outbox unchanged
\* (or, the username lookup failing, with an error); a request with an empty
\* username is rejected before the lookup; and user creation is at work
\* only on requests with a username, an email and a password of 6 to 255
\* characters.
C27_CreateUserValidation ==
    [][\A p \in Procs :
         /\ (pc[p] = "idle" /\ op'[p] = "create_user")
            => /\ users' = users /\ redis' = redis /\ outbox' = outbox
               /\ Violations(arg'[p]) # {}
                  => /\ pc'[p] = "done"
                     /\ res'[p] = RErr \/ res'[p].tag \in Violations(arg'[p])
               /\ arg'[p].username = "" => res'[p] = Rejected("username-empty")
         /\ (op'[p] = "create_user" /\ pc'[p] \in {"insert_user", "register_code", "send_code"})
            => /\ arg'[p].username # "" /\ arg'[p].email # ""
               /\ arg'[p].password.chars \in 6..255]_vars

\* ------------------------------------------------- start-up, the connections
MAX_CONNECTION_RETRIES == 20
RETRY_POLLING_INTERVAL_SECONDS == 3

\* The URLs of the configuration: one a connection URL, one not a URL.
DatabaseUrls == {"postgres://db/app", "not a url"}
RedisUrls == {"redis://cache", "not a url"}

\* RedisClient::open and PgPoolOptions::connect parse the URL they are given.
ParsesAsUrl(url) == url \in {"postgres://db/app", "redis://cache"}

\* What a connection attempt can give: an unparsable database URL fails
\* every attempt, a server may be up or down at each attempt.
ConnectOutcomes(url) == IF ParsesAsUrl(url) THEN {"Ok", "Err"} ELSE {"Err"}

\* The error RedisClient::open returns; the error of a connection attempt is
\* the number of that attempt.
OpenError == 0

\* One connect function at work: its retries counter, the attempts made, the
\* attempt that succeeded (0: none), the error of the last failure and what
\* the function returned ("-": still in its loop).
ConnLoc(retries, attempts, succeeded, error, result) ==
    [retries |-> retries, attempts |-> attempts, succeeded |-> succeeded,
     error |-> error, result |-> result]
NoConn == ConnLoc(0, 0, 0, None, "-")

\* if retries == MAX_CONNECTION_RETRIES { break Err(error); }
RetriesExhaustedOneEarly(retries) == retries + 1 = MAX_CONNECTION_RETRIES
RetriesExhausted(retries) == retries = MAX_CONNECTION_RETRIES

\* One iteration of the loop of connect_to_db and of connect_to_redis, the
\* attempt made in it giving outcome.
LoopIteration(c, outcome) ==
    LET n == c.attempts + 1 IN
    IF outcome = "Ok" THEN ConnLoc(c.retries, n, n, c.error, "Ok")
    ELSE IF RetriesExhausted(c.retries) THEN ConnLoc(c.retries, n, 0, Some(n), "Err")
    ELSE ConnLoc(c.retries + 1, n, 0, Some(n), "-")

\* The seconds the iteration sleeps: a failed attempt that is retried.
Slept(c, outcome) ==
    IF outcome = "Err" /\ ~RetriesExhausted(c.retries)
    THEN RETRY_POLLING_INTERVAL_SECONDS ELSE 0

\* The locals of run: the configuration's URLs are in arg.
StartupLoc(cdb, credis, slept) == [db |-> cdb, redis |-> credis, slept |-> slept]
StartupArg(database_url, redis_url) == [database_url |-> database_url, redis_url |-> redis_url]

StartupInit ==
    /\ redis = [k \in Keys |-> None]
    /\ users = {}
    /\ nextSid = 1 /\ nextTid = 1 /\ nextUid = 1
    /\ pc = [p \in Procs |-> IF p = 1 THEN "connect_to_db" ELSE "idle"]
    /\ op = [p \in Procs |-> IF p = 1 THEN "run" ELSE "-"]
    /\ \E database_url \in DatabaseUrls, redis_url \in RedisUrls :
          arg = [p \in Procs |-> IF p = 1 THEN StartupArg(database_url, redis_url) ELSE NoArg]
    /\ loc = [p \in Procs |-> IF p = 1 THEN StartupLoc(NoConn, NoConn, 0) ELSE NoLoc]
    /\ res = [p \in Procs |-> NoRes]
    /\ issued = {}
    /\ latest = [s \in SessionIds |-> None]
    /\ loggedOut = {} /\ expired = {}
    /\ age = [s \in SessionIds |-> 0]
    /\ consumed = {} /\ mismatched = {}
    /\ outbox = {}

\* connect_to_db, one iteration: run goes on to connect_to_redis with the
\* pool and returns the error (the ? of run) without it.
ConnectToDb(p) ==
    /\ op[p] = "run" /\ pc[p] = "connect_to_db"
    /\ \E outcome \in ConnectOutcomes(arg[p].database_url) :
          LET c == LoopIteration(loc[p].db, outcome) IN
          /\ Local(p, StartupLoc(c, loc[p].redis, loc[p].slept + Slept(loc[p].db, outcome)))
          /\ pc' = [pc EXCEPT ![p] = CASE c.result = "Ok" -> "connect_to_redis"
                                       [] c.result = "Err" -> "done"
                                       [] OTHER -> "connect_to_db"]
          /\ res' = [res EXCEPT ![p] = IF c.result = "Err" THEN RErr ELSE res[p]]
    /\ UNCHANGED <<store, db, ids, hist, op, arg, outbox>>

\* connect_to_redis, one iteration: RedisClient::open(..)? returns its error
\* at once, before any attempt; with both connections run builds the state
\* and serves.
ConnectToRedis(p) ==
    /\ op[p] = "run" /\ pc[p] = "connect_to_redis"
    /\ IF ~ParsesAsUrl(arg[p].redis_url)
       THEN /\ Local(p, StartupLoc(loc[p].db,
                                   [loc[p].redis EXCEPT !.error = Some(OpenError), !.result = "Err"],
                                   loc[p].slept))
            /\ pc' = [pc EXCEPT ![p] = "done"]
            /\ res' = [res EXCEPT ![p] = RErr]
       ELSE \E outcome \in ConnectOutcomes(arg[p].redis_url) :
               LET c == LoopIteration(loc[p].redis, outcome) IN
               /\ Local(p, StartupLoc(loc[p].db, c, loc[p].slept + Slept(loc[p].redis, outcome)))
               /\ pc' = [pc EXCEPT ![p] = IF c.result = "-" THEN "connect_to_redis" ELSE "done"]
               /\ res' = [res EXCEPT ![p] = CASE c.result = "Ok" -> ROk
                                              [] c.result = "Err" -> RErr
                                              [] OTHER -> res[p]]
    /\ UNCHANGED <<store, db, ids, hist, op, arg, outbox>>

StartupNext == ConnectToDb(1) \/ ConnectToRedis(1)
Startup == StartupInit /\ [][StartupNext]_vars

\* The connect functions of a start-up, each with the URL it is given.
Connects(p) == {<<loc[p].db, arg[p].database_url>>, <<loc[p].redis, arg[p].redis_url>>}

\* What holds of a connect function c whatever its URL: it makes an attempt
\* in every iteration and never more than MAX_CONNECTION_RETRIES + 1, and it
\* returns the connection in the iteration whose attempt succeeds, the
\* first that does.
BoundedAndPrompt(c) ==
    /\ c.retries \in 0..MAX_CONNECTION_RETRIES
    /\ c.attempts = c.retries + (IF c.result \in {"Ok", "Err"} /\ c.error # Some(OpenError) THEN 1 ELSE 0)
    /\ c.result = "Ok" <=> c.succeeded # 0
    /\ c.result = "Ok" => c.succeeded = c.attempts
    /\ c.result = "-" => c.error = (IF c.attempts = 0 THEN None ELSE Some(c.attempts))

\* The error is returned after exactly 21 attempts, and is the error of the
\* last of them.
LastErrorAfterAllAttempts(c) ==
    /\ c.attempts = MAX_CONNECTION_RETRIES + 1
    /\ c.error = Some(c.attempts)

\* C28 as stated: connect_to_db and connect_to_redis return the connection
\* on the first successful attempt, and return an error only after exactly
\* 21 attempts (the first and MAX_CONNECTION_RETRIES = 20 retries), the
\* error of the last attempt; neither makes more than 21 attempts.
C28_ErrorOnlyAfterAllAttempts ==
    \A p \in Procs :
        op[p] = "run"
        => \A x \in Connects(p) :
              /\ BoundedAndPrompt(x[1])
              /\ x[1].result = "Err" => LastErrorAfterAllAttempts(x[1])

\* C28, amended: connect_to_db and connect_to_redis return the connection
\* on the first successful attempt and, every attempt failing, the error of
\* the last one after exactly 21 attempts, except that connect_to_redis
\* returns the error of RedisClient::open at once, with no attempt made and
\* nothing retried, when redis_url does not parse.  Neither loops forever:
\* every iteration of either ends the function or counts one retry more, of
\* at most 20, after sleeping RETRY_POLLING_INTERVAL_SECONDS.
C28_ConnectionEstablishmentTerminates ==
    /\ [](\A p \in Procs :
            op[p] = "run"
            => /\ \A x \in Connects(p) : BoundedAndPrompt(x[1])
               /\ loc[p].db.result = "Err" => LastErrorAfterAllAttempts(loc[p].db)
               /\ loc[p].redis.result = "Err"
                  => IF ParsesAsUrl(arg[p].redis_url)
                     THEN LastErrorAfterAllAttempts(loc[p].redis)
                     ELSE loc[p].redis.attempts = 0 /\ loc[p].redis.error = Some(OpenError)
               /\ (~ParsesAsUrl(arg[p].redis_url) /\ loc[p].db.result = "Ok")
                  => loc[p].redis.attempts = 0
               /\ loc[p].slept = RETRY_POLLING_INTERVAL_SECONDS
                                 * (loc[p].db.retries + loc[p].redis.retries))
    /\ [][\A p \in Procs :
            (op[p] = "run" /\ loc'[p] # loc[p])
            => /\ pc[p] \in {"connect_to_db", "connect_to_redis"}
               /\ \/ pc'[p] # pc[p]
                  \/ loc'[p].db.retries + loc'[p].redis.retries
                     = loc[p].db.retries + loc[p].redis.retries + 1]_vars

\* The database answered after failed attempts, and the Redis server, its
\* URL a URL, failed all 21 attempts: run ended with the last error.
C28_Witness ==
    \E p \in Procs :
        /\ op[p] = "run" /\ pc[p] = "done" /\ res[p] = RErr
        /\ loc[p].db.result = "Ok" /\ loc[p].db.attempts > 1
        /\ ParsesAsUrl(arg[p].redis_url)
        /\ loc[p].redis.result = "Err"
        /\ loc[p].redis.attempts = MAX_CONNECTION_RETRIES + 1

====
